---- MODULE Spec2Model ----
(***************************************************************************)
(* Model of streamlit_app.py: the MyCombinedStrategy strategy (rule sets,  *)
(* next, notify_order) driven bar by bar by the backtrader engine that     *)
(* run_backtest configures (cash, 0.1% commission, market orders filled    *)
(* at the next bar's open).                                                *)
(*                                                                         *)
(* Numbers.  Prices and moving averages are whole currency units, volumes  *)
(* are units, cash and equity are thousandths of a currency unit (so that  *)
(* the 0.001 commission is exact).  NaN stands for the value an indicator  *)
(* line holds before its window is filled; every comparison with it is     *)
(* false, as for a Python float.                                           *)
(***************************************************************************)
EXTENDS Integers, Sequences, FiniteSets, TLC

VARIABLES
    logic,          \* params.logic, the combinator passed by run_backtest
    initial_cash,   \* run_backtest's initial_cash (currency units)
    len,            \* len(self.datas[0]): bars delivered so far
    bar,            \* current bar and indicator snapshot ([0] of every line)
    order,          \* self.order: None or a reference into orders
    orders,         \* the order objects created by buy()/sell()
    notifs,         \* order notifications queued for notify_order
    log_messages,   \* self.log_messages
    cash,           \* broker cash (thousandths)
    position,       \* broker position size (self.position.size)
    value,          \* broker value, the tracked mark-to-market equity
    subs,           \* orders submitted by next() on the current bar
    fills,          \* executions done by the broker on the current bar
    signal_s1,      \* next(): result of check_strategy_1 on this bar
    signal_s2,      \* next(): result of check_strategy_2 on this bar
    pc,             \* where the run is
    maxvalue,       \* DrawDown analyzer: highest broker value seen
    maxdrawdown,    \* DrawDown analyzer: max.drawdown (hundredths of a percent)
    ui,             \* sidebar inputs read when the button is pressed
    cache,          \* st.cache_data store of get_data, by (ticker, start, end)
    now,            \* wall clock, seconds
    answer,         \* what yf.download answered in the last get_data call
    fetched,        \* whether the last get_data call ran its body
    data,           \* button handler: the frame get_data returned
    called,         \* button handler: functions called since the press
    outcome,        \* button handler: what was surfaced to the user
    strat_params,   \* parameters the strategy of the last run was built with
    sharpe_in,      \* run_backtest: the SharpeRatio analyzer's get_analysis()
    metrics         \* run_backtest: the returned metrics

vars == <<logic, initial_cash, len, bar, order, orders, notifs, log_messages,
          cash, position, value, subs, fills, signal_s1, signal_s2, pc,
          maxvalue, maxdrawdown, ui, cache, now, answer, fetched, data,
          called, outcome, strat_params, sharpe_in, metrics>>

analyzers == <<maxvalue, maxdrawdown>>

appvars == <<ui, cache, now, answer, fetched, data, called, outcome,
             strat_params, sharpe_in, metrics>>

----------------------------------------------------------------------------
(* Bounds *)

MaxBars == 62       \* bars in the data feed

----------------------------------------------------------------------------
(* Program constants *)

volume_limit_A == 10000
volume_limit_B == 1000
k_bar_pct == 35             \* 0.035, in thousandths
consolidation_pct == 5      \* 0.05, in hundredths
position_size == 100
CommPermille == 1           \* commission=0.001, in thousandths
Period5 == 5
Period10 == 10
Period20 == 20
Period60 == 60
CrossPeriod == 35           \* MACD(12, 26, 9) then CrossOver: 26 + 9 - 1 + 1
S1MinLen == 60
S2MinLen == 20

None == 0
NaN == 0 - 999

----------------------------------------------------------------------------
(* Input domains *)

Logics == {"AND", "OR"}
InitialCashes == {20900, 100000}

\* A line of period p holds NaN until p bars have been delivered.
LineValues(n, p, S) == IF n < p THEN {NaN} ELSE S

\* An average of non-negative closes is zero only when every close in its
\* window is zero, so a zero average forces the shorter ones to zero.
Consistent(b) ==
    /\ (b.ma5 = 0 => b.close = 0)
    /\ (b.ma10 = 0 => b.ma5 = 0)
    /\ (b.ma20 = 0 => b.ma10 = 0)
    /\ (b.ma60 = 0 => b.ma20 = 0)

\* Bars of the data feed of a run: the current bar with the indicator
\* values of the same index.
BarsAt(n) ==
    { b \in [ open : {0, 200, 209}, close : {0, 208, 210},
              volume : {1000000, 11000000},
              ma5 : LineValues(n, Period5, {0, 200}),
              ma10 : LineValues(n, Period10, {0, 205}),
              ma20 : LineValues(n, Period20, {0, 200}),
              ma60 : LineValues(n, Period60, {100}),
              cross : LineValues(n, CrossPeriod, {0, 1}) ] : Consistent(b) }

\* Bars on which the rule sets are evaluated in isolation: the values on
\* both sides of every threshold the rules compare against.
RuleLens == {0, S2MinLen - 1, S2MinLen, CrossPeriod, S1MinLen - 1, S1MinLen, MaxBars}

RuleBarsAt(n) ==
    { b \in [ open : {0, 200}, close : {0, 207, 208, 210},
              volume : {1000000, 1000001, 10000000, 11000000},
              ma5 : LineValues(n, Period5, {0, 200, 210}),
              ma10 : LineValues(n, Period10, {0, 205}),
              ma20 : LineValues(n, Period20, {0, 200, 207}),
              ma60 : LineValues(n, Period60, {100, 200}),
              cross : LineValues(n, CrossPeriod, {0 - 1, 0, 1}) ] : Consistent(b) }

NoBar == [ open |-> NaN, close |-> NaN, volume |-> NaN, ma5 |-> NaN,
           ma10 |-> NaN, ma20 |-> NaN, ma60 |-> NaN, cross |-> NaN ]

----------------------------------------------------------------------------
(* Python float comparisons and builtins *)

Lt(a, b) == a # NaN /\ b # NaN /\ a < b
Gt(a, b) == Lt(b, a)

\* max(a, b): b if b > a else a ;  min(a, b): b if b < a else a
PyMax(a, b) == IF Gt(b, a) THEN b ELSE a
PyMin(a, b) == IF Lt(b, a) THEN b ELSE a

Abs(x) == IF x < 0 THEN 0 - x ELSE x
Min2(a, b) == IF a < b THEN a ELSE b

----------------------------------------------------------------------------
(* Rule sets.  Result "True" / "False", or "Raise" for ZeroDivisionError.  *)

\* max_ma / min_ma < 1 + consolidation_pct
TieUp(max_ma, min_ma) ==
    IF max_ma = NaN \/ min_ma = NaN THEN "False"
    ELSE IF min_ma = 0 THEN "Raise"
    ELSE IF max_ma * 100 < (100 + consolidation_pct) * min_ma THEN "True"
    ELSE "False"

\* check_strategy_1 with the stacking test written "<="
check_strategy_1_le(n, b) ==
    IF n < S1MinLen THEN "False"
    ELSE LET cond_1 == /\ b.ma60 # NaN /\ b.ma20 # NaN /\ b.close # NaN
                       /\ b.ma60 <= b.ma20 /\ b.ma20 <= b.close
             max_ma == PyMax(b.ma5, b.ma20)
             min_ma == PyMin(b.ma5, b.ma20)
             cond_2 == TieUp(max_ma, min_ma)
             cond_3 == Gt(b.volume, volume_limit_A * 1000)
         IN  IF cond_2 = "Raise" THEN "Raise"
             ELSE IF cond_1 /\ cond_2 = "True" /\ cond_3 THEN "True"
             ELSE "False"

\* check_strategy_1 with the volume test written ">="
check_strategy_1_ge(n, b) ==
    IF n < S1MinLen THEN "False"
    ELSE LET cond_1 == Lt(b.ma60, b.ma20) /\ Lt(b.ma20, b.close)
             max_ma == PyMax(b.ma5, b.ma20)
             min_ma == PyMin(b.ma5, b.ma20)
             cond_2 == TieUp(max_ma, min_ma)
             cond_3 == b.volume # NaN /\ b.volume >= volume_limit_A * 1000
         IN  IF cond_2 = "Raise" THEN "Raise"
             ELSE IF cond_1 /\ cond_2 = "True" /\ cond_3 THEN "True"
             ELSE "False"

check_strategy_1(n, b) ==
    IF n < S1MinLen THEN "False"
    ELSE LET cond_1 == Lt(b.ma60, b.ma20) /\ Lt(b.ma20, b.close)
             max_ma == PyMax(b.ma5, b.ma20)
             min_ma == PyMin(b.ma5, b.ma20)
             cond_2 == TieUp(max_ma, min_ma)
             cond_3 == Gt(b.volume, volume_limit_A * 1000)
         IN  IF cond_2 = "Raise" THEN "Raise"
             ELSE IF cond_1 /\ cond_2 = "True" /\ cond_3 THEN "True"
             ELSE "False"

\* (close > open) and ((close - open) / open > k_bar_pct)
LongCandle(close, open) ==
    IF ~ Gt(close, open) THEN "False"
    ELSE IF open = 0 THEN "Raise"
    ELSE IF (close - open) * 1000 > k_bar_pct * open THEN "True"
    ELSE "False"

\* check_strategy_2 testing "MACD line not below" (macd_cross >= 0)
check_strategy_2_above(n, b) ==
    IF n < S2MinLen THEN "False"
    ELSE LET cond_1 == Lt(b.ma20, b.ma10) /\ Lt(b.ma10, b.close)
             cond_2 == Gt(b.volume, volume_limit_B * 1000)
             cond_3 == LongCandle(b.close, b.open)
             cond_4 == b.cross # NaN /\ b.cross >= 0
         IN  IF cond_3 = "Raise" THEN "Raise"
             ELSE IF cond_1 /\ cond_2 /\ cond_3 = "True" /\ cond_4 THEN "True"
             ELSE "False"

\* check_strategy_2 without the "len < 20" early return
check_strategy_2_noguard(n, b) ==
    LET cond_1 == Lt(b.ma20, b.ma10) /\ Lt(b.ma10, b.close)
        cond_2 == Gt(b.volume, volume_limit_B * 1000)
        cond_3 == LongCandle(b.close, b.open)
        cond_4 == Gt(b.cross, 0)
    IN  IF cond_3 = "Raise" THEN "Raise"
        ELSE IF cond_1 /\ cond_2 /\ cond_3 = "True" /\ cond_4 THEN "True"
        ELSE "False"

check_strategy_2(n, b) ==
    IF n < S2MinLen THEN "False"
    ELSE LET cond_1 == Lt(b.ma20, b.ma10) /\ Lt(b.ma10, b.close)
             cond_2 == Gt(b.volume, volume_limit_B * 1000)
             cond_3 == LongCandle(b.close, b.open)
             cond_4 == Gt(b.cross, 0)
         IN  IF cond_3 = "Raise" THEN "Raise"
             ELSE IF cond_1 /\ cond_2 /\ cond_3 = "True" /\ cond_4 THEN "True"
             ELSE "False"

----------------------------------------------------------------------------
(* Broker: cerebro.broker with setcash(initial_cash) and                   *)
(* setcommission(commission=0.001); stock-like, market orders.             *)

\* commission with 0.001 read as a percentage (0.001%)
getcommission_pct(n, price) == (n * price * CommPermille) \div 100

\* commission on n shares at price, in thousandths of a currency unit
getcommission(n, price) == n * price * CommPermille

\* Split of a signed size change into the part closing the held position
\* and the part opening a new one.
ClosedPart(pos, delta) ==
    IF pos > 0 /\ delta < 0 THEN 0 - Min2(0 - delta, pos)
    ELSE IF pos < 0 /\ delta > 0 THEN Min2(delta, 0 - pos)
    ELSE 0

Delta(o) == IF o.isbuy THEN o.size ELSE 0 - o.size

\* cash after trading the signed size d at price
CashAfter(c, d, price) == c - d * price * 1000 - getcommission(Abs(d), price)

\* One execution (real, or the pseudo-execution of check_submitted):
\* the closing part always trades, the opening part only if cash stays >= 0.
Execute(c, pos, o, price) ==
    LET d == Delta(o)
        closed == ClosedPart(pos, d)
        opened == d - closed
        c1 == CashAfter(c, closed, price)
        c2 == CashAfter(c1, opened, price)
        ok == opened = 0 \/ c2 >= 0
    IN  [ cashall |-> c2,
          cash |-> IF ok THEN c2 ELSE c1,
          exec |-> IF ok THEN d ELSE closed,
          margin |-> ~ ok ]

Notif(i, o, st, price, comm) ==
    [ ref |-> i, isbuy |-> o.isbuy, status |-> st, price |-> price, comm |-> comm ]

\* check_submitted: pseudo-execute every submitted order at its creation
\* price, in submission order, on a running copy of cash and position.
RECURSIVE CheckSubmitted(_, _, _, _)
CheckSubmitted(i, st, pcash, ppos) ==
    IF i > Len(st.orders) THEN st
    ELSE LET o == st.orders[i] IN
         IF o.status # "Submitted" THEN CheckSubmitted(i + 1, st, pcash, ppos)
         ELSE LET r == Execute(pcash, ppos, o, o.cprice)
                  newst == IF r.cashall >= 0 THEN "Accepted" ELSE "Margin"
              IN  CheckSubmitted(i + 1,
                     [ st EXCEPT !.orders[i].status = newst,
                                 !.notifs = Append(@, Notif(i, o, newst, 0, 0)) ],
                     r.cashall, ppos + Delta(o))

\* Pending accepted market orders execute at the new bar's open.
RECURSIVE TryExec(_, _, _)
TryExec(i, st, popen) ==
    IF i > Len(st.orders) THEN st
    ELSE LET o == st.orders[i] IN
         IF o.status # "Accepted" THEN TryExec(i + 1, st, popen)
         ELSE LET r == Execute(st.cash, st.position, o, popen)
                  comm == getcommission(Abs(r.exec), popen)
                  done == IF r.margin THEN "Margin" ELSE "Completed"
                  n1 == IF r.exec # 0
                        THEN <<Notif(i, o, IF r.margin THEN "Partial" ELSE "Completed",
                                     popen, comm)>>
                        ELSE <<>>
                  n2 == IF r.margin THEN <<Notif(i, o, "Margin", 0, 0)>> ELSE <<>>
                  f == IF r.exec # 0
                       THEN <<[ size |-> r.exec, price |-> popen, comm |-> comm ]>>
                       ELSE <<>>
              IN  TryExec(i + 1,
                     [ st EXCEPT !.orders[i].status = done,
                                 !.cash = r.cash,
                                 !.position = @ + r.exec,
                                 !.notifs = @ \o n1 \o n2,
                                 !.fills = @ \o f ],
                     popen)

BrokerNext(b) ==
    LET st0 == [ orders |-> orders, notifs |-> notifs, cash |-> cash,
                 position |-> position, fills |-> <<>> ]
        st1 == CheckSubmitted(1, st0, cash, position)
    IN  TryExec(1, st1, b.open)

\* broker value: cash plus the position marked at the bar's close
GetValue(c, pos, b) == c + pos * b.close * 1000

----------------------------------------------------------------------------
(* Strategy handlers *)

\* notify_order: the log entry appended for a notification (or none)
NotifyLog(n, dt) ==
    IF n.status = "Completed"
    THEN IF n.isbuy
         THEN <<[ txt |-> "buy executed", dt |-> dt ]>>
         ELSE <<[ txt |-> "sell executed", dt |-> dt ]>>
    ELSE IF n.status \in {"Canceled", "Margin", "Rejected"}
    THEN <<[ txt |-> "order failed/canceled/rejected", dt |-> dt ]>>
    ELSE <<>>

\* notify_order: self.order after the handler (it never assigns it)
NotifyOrderRef(ref, n) == ref

\* next(): "if self.order: return"
OrderGuard(ref) == ref # None

\* next(): final_buy_signal
FinalBuySignal(lg, s1, s2) ==
    IF lg = "AND" THEN s1 = "True" /\ s2 = "True"
    ELSE s1 = "True" \/ s2 = "True"

\* next() submitting one buy per rule set that fired
NextOrdersPerRule(lg, s1, s2, pos, b) ==
    IF pos = 0
    THEN IF FinalBuySignal(lg, s1, s2)
         THEN (IF s1 = "True" THEN <<[ isbuy |-> TRUE, size |-> position_size ]>> ELSE <<>>)
              \o (IF s2 = "True" THEN <<[ isbuy |-> TRUE, size |-> position_size ]>> ELSE <<>>)
         ELSE <<>>
    ELSE IF Lt(b.close, b.ma20)
         THEN <<[ isbuy |-> FALSE, size |-> position_size ]>>
         ELSE <<>>

\* next() with the exit test as a separate "if" instead of the "else" branch
NextOrdersNoElse(lg, s1, s2, pos, b) ==
    (IF pos = 0 /\ FinalBuySignal(lg, s1, s2)
     THEN <<[ isbuy |-> TRUE, size |-> position_size ]>> ELSE <<>>)
    \o (IF Lt(b.close, b.ma20)
        THEN <<[ isbuy |-> FALSE, size |-> position_size ]>> ELSE <<>>)

\* next(): the orders requested by the buy / sell branches
NextOrders(lg, s1, s2, pos, b) ==
    IF pos = 0
    THEN IF FinalBuySignal(lg, s1, s2)
         THEN <<[ isbuy |-> TRUE, size |-> position_size ]>>
         ELSE <<>>
    ELSE IF Lt(b.close, b.ma20)
         THEN <<[ isbuy |-> FALSE, size |-> position_size ]>>
         ELSE <<>>

\* next(): the log entry written before each request
SignalLog(lg, req, dt) ==
    IF req.isbuy
    THEN [ txt |-> "buy signal", dt |-> dt ]
    ELSE [ txt |-> "exit signal", dt |-> dt ]

\* self.buy()/self.sell(): a market order created at the current close
NewOrder(req, b) ==
    [ isbuy |-> req.isbuy, size |-> req.size, status |-> "Submitted",
      cprice |-> b.close ]

RECURSIVE Submit(_, _, _, _)
Submit(reqs, st, b, dt) ==
    IF reqs = <<>> THEN st
    ELSE LET o == NewOrder(Head(reqs), b)
             i == Len(st.orders) + 1
         IN  Submit(Tail(reqs),
                [ orders |-> Append(st.orders, o),
                  notifs |-> Append(st.notifs, Notif(i, o, "Submitted", 0, 0)),
                  log |-> Append(st.log, SignalLog(logic, Head(reqs), dt)),
                  order |-> i ],
                b, dt)

----------------------------------------------------------------------------
(* bt.analyzers.DrawDown, added by run_backtest as 'drawdown' *)

NegInf == 0 - 2000000000

Max2(a, b) == IF a > b THEN a ELSE b

\* drawdown = 100 * (maxvalue - value) / maxvalue, kept in hundredths of a
\* percent (the two decimals that run_backtest reports); the two amounts
\* are taken in whole currency units
DrawDownPct(maxv, v) == (((maxv - v) \div 1000) * 10000) \div (maxv \div 1000)

\* the drawdown shown as a negative figure
ReportedMDDSigned(maxdd) == 0 - maxdd

\* run_backtest: the figure shown as max drawdown, get('max').get('drawdown')
ReportedMDD(maxdd) == maxdd

----------------------------------------------------------------------------
(* The page: sidebar inputs, the cached get_data and the button handler.   *)

ttl == 3600                 \* @st.cache_data(ttl=3600)

TickSeconds == 1800         \* granularity of the clock
MaxTicks == 3               \* clock readings after the first

Tickers == {"AAPL", "NOSUCH"}
Dates == {1, 2}
UICashes == {0, 100000}
UIVolumeLimits == {5, 10}           \* slider 'volA', default 10
UIKBarPcts == {20}                  \* slider 'kpct' (default 0.035), thousandths

UIs == [ ticker : Tickers, start_date : Dates, end_date : Dates,
         initial_cash : UICashes, volume_limit_A : UIVolumeLimits,
         k_bar_pct : UIKBarPcts, logic_mode : Logics ]

NoUI == [ ticker |-> "", start_date |-> 0, end_date |-> 0, initial_cash |-> 0,
          volume_limit_A |-> 0, k_bar_pct |-> 0, logic_mode |-> "" ]

Keys == Tickers \X Dates \X Dates

\* data frames: number of rows and set of column labels
EmptyFrame == [ kind |-> "frame", rows |-> 0, cols |-> {} ]     \* pd.DataFrame()
IsEmpty(f) == f.rows = 0 \/ f.cols = {}                          \* f.empty

\* yf.download: a frame, or an exception
ProviderAnswers ==
    { [ kind |-> "exception", rows |-> 0, cols |-> {} ] }
    \cup [ kind : {"frame"}, rows : {0, 2},
           cols : { {"Open", "High", "Low", "Close", "Volume"},
                    {"Open", "High", "Low", "Close"},
                    {"Open", "High", "Low", "Adj Close", "Volume"} } ]

NoAnswer == [ kind |-> "none", rows |-> 0, cols |-> {} ]

\* str(col).lower()
Lower(c) ==
    CASE c = "Open" -> "open"
      [] c = "High" -> "high"
      [] c = "Low" -> "low"
      [] c = "Close" -> "close"
      [] c = "Adj Close" -> "adj close"
      [] c = "Volume" -> "volume"
      [] OTHER -> c

\* data.rename(columns={'adj close': 'close'})
Rename(c) == IF c = "adj close" THEN "close" ELSE c

required_cols == {"open", "high", "low", "close", "volume"}

\* get_data's body on the provider's answer
GetDataBody(ans) ==
    IF ans.kind = "exception" THEN EmptyFrame
    ELSE IF IsEmpty(ans) THEN EmptyFrame
    ELSE LET cols == { Rename(Lower(c)) : c \in ans.cols }
             missing_cols == required_cols \ cols
         IN  IF missing_cols # {} THEN EmptyFrame
             ELSE [ kind |-> "frame", rows |-> ans.rows, cols |-> required_cols ]

\* st.cache_data: an entry is served while it is younger than ttl
NoEntry == [ stored |-> FALSE, at |-> 0, result |-> EmptyFrame ]
CacheHit(c, key, t) == c[key].stored /\ t - c[key].at < ttl

\* st.cache_data stores whatever the function returned
CacheStoreDataOnly(c, key, t, result) ==
    IF IsEmpty(result) THEN c
    ELSE [ c EXCEPT ![key] = [ stored |-> TRUE, at |-> t, result |-> result ] ]

CacheStore(c, key, t, result) ==
    [ c EXCEPT ![key] = [ stored |-> TRUE, at |-> t, result |-> result ] ]

\* cerebro.addstrategy(MyCombinedStrategy, logic=logic): every parameter but
\* logic keeps the default of MyCombinedStrategy.params
StrategyParams(u) ==
    [ logic |-> u.logic_mode, volume_limit_A |-> volume_limit_A,
      volume_limit_B |-> volume_limit_B, k_bar_pct |-> k_bar_pct,
      consolidation_pct |-> consolidation_pct, position_size |-> position_size ]

NoParams == [ logic |-> "", volume_limit_A |-> 0, volume_limit_B |-> 0,
              k_bar_pct |-> 0, consolidation_pct |-> 0, position_size |-> 0 ]

\* get_analysis() of the SharpeRatio analyzer: the key may be absent, or
\* hold None, NaN or a number (hundredths)
SharpeAnalyses ==
    { [ haskey |-> FALSE, kind |-> "absent", val |-> 0 ],
      [ haskey |-> TRUE, kind |-> "None", val |-> 0 ],
      [ haskey |-> TRUE, kind |-> "nan", val |-> 0 ],
      [ haskey |-> TRUE, kind |-> "number", val |-> 150 ] }

NoAnalysis == [ haskey |-> FALSE, kind |-> "none", val |-> 0 ]

\* run_backtest lines 206-208: .get('sharperatio', 'N/A'), then formatted
\* with two decimals unless None or 'N/A'.  "None" is Python's None.
SharpeMetric(a) ==
    IF ~ a.haskey THEN "N/A"
    ELSE IF a.kind = "None" THEN "None"
    ELSE IF a.kind = "nan" THEN "nan"
    ELSE "number"

AppIdle ==
    /\ ui = NoUI
    /\ cache = [ k \in Keys |-> NoEntry ]
    /\ now = 0
    /\ answer = NoAnswer
    /\ fetched = FALSE
    /\ data = EmptyFrame
    /\ called = {}
    /\ outcome = "none"
    /\ strat_params = NoParams
    /\ sharpe_in = NoAnalysis
    /\ metrics = "none"

----------------------------------------------------------------------------
(* The run *)

\* the minimum period taken from the MACD crossover instead of MA60
MinPeriodMacd == CrossPeriod

MinPeriod == 60     \* the strategy's minimum period: the longest window

Init ==
    /\ logic \in Logics
    /\ initial_cash \in InitialCashes
    /\ len = 0
    /\ bar = NoBar
    /\ order = None
    /\ orders = <<>>
    /\ notifs = <<>>
    /\ log_messages = <<>>
    /\ cash = initial_cash * 1000
    /\ position = 0
    /\ value = initial_cash * 1000
    /\ subs = 0
    /\ fills = <<>>
    /\ signal_s1 = "NotEvaluated"
    /\ signal_s2 = "NotEvaluated"
    /\ pc = "advance"
    /\ maxvalue = NegInf
    /\ maxdrawdown = 0
    /\ AppIdle

\* cerebro.run(): deliver the next bar of the feed B, then broker.next() on
\* it; the analyzers then see the new broker value
Advance(B) ==
    /\ UNCHANGED appvars
    /\ pc = "advance"
    /\ len < MaxBars
    /\ \E b \in B :
         LET st == BrokerNext(b)
             v == GetValue(st.cash, st.position, b)
             mv == Max2(maxvalue, v)
         IN
         /\ bar' = b
         /\ orders' = st.orders
         /\ notifs' = st.notifs
         /\ cash' = st.cash
         /\ position' = st.position
         /\ fills' = st.fills
         /\ value' = v
         /\ maxvalue' = mv
         /\ maxdrawdown' = Max2(maxdrawdown, DrawDownPct(mv, v))
    /\ len' = len + 1
    /\ subs' = 0
    /\ signal_s1' = "NotEvaluated"
    /\ signal_s2' = "NotEvaluated"
    /\ pc' = "strategy"
    /\ UNCHANGED <<logic, initial_cash, order, log_messages>>

AdvanceBar == Advance(BarsAt(len + 1))

\* MyCombinedStrategy.notify_order, called once per queued notification
notify_order ==
    /\ UNCHANGED appvars
    /\ UNCHANGED analyzers
    /\ pc = "strategy"
    /\ notifs # <<>>
    /\ log_messages' = log_messages \o NotifyLog(Head(notifs), len)
    /\ order' = NotifyOrderRef(order, Head(notifs))
    /\ notifs' = Tail(notifs)
    /\ UNCHANGED <<logic, initial_cash, len, bar, orders, cash, position,
                   value, subs, fills, signal_s1, signal_s2, pc>>

\* Strategy.prenext (not overridden): bars before the minimum period
prenext ==
    /\ UNCHANGED appvars
    /\ UNCHANGED analyzers
    /\ pc = "strategy"
    /\ notifs = <<>>
    /\ len < MinPeriod
    /\ pc' = "advance"
    /\ UNCHANGED <<logic, initial_cash, len, bar, order, orders, notifs,
                   log_messages, cash, position, value, subs, fills,
                   signal_s1, signal_s2>>

\* MyCombinedStrategy.next
next ==
    /\ UNCHANGED appvars
    /\ UNCHANGED analyzers
    /\ pc = "strategy"
    /\ notifs = <<>>
    /\ len >= MinPeriod
    /\ IF OrderGuard(order)
       THEN /\ pc' = "advance"
            /\ UNCHANGED <<order, orders, notifs, log_messages, subs,
                           signal_s1, signal_s2>>
       ELSE LET s1 == check_strategy_1(len, bar)
                s2 == check_strategy_2(len, bar)
            IN  IF s1 = "Raise"
                THEN /\ signal_s1' = s1
                     /\ pc' = "raised"
                     /\ UNCHANGED <<order, orders, notifs, log_messages, subs,
                                    signal_s2>>
                ELSE IF s2 = "Raise"
                THEN /\ signal_s1' = s1
                     /\ signal_s2' = s2
                     /\ pc' = "raised"
                     /\ UNCHANGED <<order, orders, notifs, log_messages, subs>>
                ELSE LET reqs == NextOrders(logic, s1, s2, position, bar)
                         st == Submit(reqs,
                                      [ orders |-> orders, notifs |-> notifs,
                                        log |-> log_messages, order |-> order ],
                                      bar, len)
                     IN  /\ signal_s1' = s1
                         /\ signal_s2' = s2
                         /\ orders' = st.orders
                         /\ notifs' = st.notifs
                         /\ log_messages' = st.log
                         /\ order' = st.order
                         /\ subs' = subs + Len(reqs)
                         /\ pc' = "advance"
    /\ UNCHANGED <<logic, initial_cash, len, bar, cash, position, value, fills>>

\* cerebro.run() returns when the feed is exhausted
RunEnd ==
    /\ UNCHANGED appvars
    /\ UNCHANGED analyzers
    /\ pc = "advance"
    /\ len = MaxBars
    /\ pc' = "done"
    /\ UNCHANGED <<logic, initial_cash, len, bar, order, orders, notifs,
                   log_messages, cash, position, value, subs, fills,
                   signal_s1, signal_s2>>

Next == AdvanceBar \/ notify_order \/ prenext \/ next \/ RunEnd

Spec == Init /\ [][Next]_vars

----------------------------------------------------------------------------
(* Runs on a flat series: open and close are one constant price on every   *)
(* bar, so every moving average that is defined equals that price, the     *)
(* MACD line equals its signal line and the crossover detector stays 0.    *)
(* No order notification is ever queued on such a feed.                    *)

FlatPrices == {0, 200}

FlatBarsAt(n, c) ==
    [ open : {c}, close : {c}, volume : {1000000, 11000000},
      ma5 : LineValues(n, Period5, {c}),
      ma10 : LineValues(n, Period10, {c}),
      ma20 : LineValues(n, Period20, {c}),
      ma60 : LineValues(n, Period60, {c}),
      cross : LineValues(n, CrossPeriod, {0}) ]

AdvanceFlat ==
    \E c \in FlatPrices :
        /\ (len = 0 \/ bar.close = c)
        /\ Advance(FlatBarsAt(len + 1, c))

NextFlat == AdvanceFlat \/ prenext \/ next \/ RunEnd

SpecFlat == Init /\ [][NextFlat]_vars

----------------------------------------------------------------------------
(* The page: pressing the button *)

enginevars == <<logic, initial_cash, len, bar, order, orders, notifs,
                log_messages, cash, position, value, subs, fills,
                signal_s1, signal_s2, maxvalue, maxdrawdown>>

InitApp ==
    /\ logic = "OR"
    /\ initial_cash = 100000
    /\ len = 0
    /\ bar = NoBar
    /\ order = None
    /\ orders = <<>>
    /\ notifs = <<>>
    /\ log_messages = <<>>
    /\ cash = initial_cash * 1000
    /\ position = 0
    /\ value = initial_cash * 1000
    /\ subs = 0
    /\ fills = <<>>
    /\ signal_s1 = "NotEvaluated"
    /\ signal_s2 = "NotEvaluated"
    /\ pc = "app_idle"
    /\ maxvalue = NegInf
    /\ maxdrawdown = 0
    /\ AppIdle

\* time passes between two presses
Tick ==
    /\ pc = "app_idle"
    /\ now < MaxTicks * TickSeconds
    /\ now' = now + TickSeconds
    /\ UNCHANGED <<ui, cache, answer, fetched, data, called, outcome,
                   strat_params, sharpe_in, metrics, pc>>
    /\ UNCHANGED enginevars

\* if st.sidebar.button(...): the date check
Click ==
    /\ pc = "app_idle"
    /\ \E u \in UIs :
         /\ ui' = u
         /\ IF u.start_date >= u.end_date
            THEN outcome' = "InvalidParameters" /\ pc' = "app_idle"
            ELSE outcome' = "none" /\ pc' = "app_get_data"
    /\ called' = {}
    /\ answer' = NoAnswer
    /\ fetched' = FALSE
    /\ data' = EmptyFrame
    /\ strat_params' = NoParams
    /\ sharpe_in' = NoAnalysis
    /\ metrics' = "none"
    /\ UNCHANGED <<cache, now>>
    /\ UNCHANGED enginevars

\* data = get_data(ticker, start, end) through st.cache_data
get_data ==
    /\ pc = "app_get_data"
    /\ LET key == <<ui.ticker, ui.start_date, ui.end_date>> IN
       IF CacheHit(cache, key, now)
       THEN /\ data' = cache[key].result
            /\ fetched' = FALSE
            /\ answer' = NoAnswer
            /\ cache' = cache
       ELSE \E ans \in ProviderAnswers :
            /\ answer' = ans
            /\ fetched' = TRUE
            /\ data' = GetDataBody(ans)
            /\ cache' = CacheStore(cache, key, now, GetDataBody(ans))
    /\ called' = called \cup {"get_data"}
    /\ pc' = "app_after_data"
    /\ UNCHANGED <<ui, now, outcome, strat_params, sharpe_in, metrics>>
    /\ UNCHANGED enginevars

\* if not data.empty: metrics, fig = run_backtest(data, logic_mode, initial_cash)
run_backtest ==
    /\ pc = "app_after_data"
    /\ ~ IsEmpty(data)
    /\ called' = called \cup {"run_backtest"}
    /\ strat_params' = StrategyParams(ui)
    /\ IF ui.initial_cash = 0
       THEN \* 100 * moneydown / maxvalue and (final - initial) / initial
            /\ outcome' = "ZeroDivisionError"
            /\ UNCHANGED <<sharpe_in, metrics>>
       ELSE \E a \in SharpeAnalyses :
            /\ sharpe_in' = a
            /\ metrics' = SharpeMetric(a)
            /\ outcome' = "results"
    /\ pc' = "app_idle"
    /\ UNCHANGED <<ui, cache, now, answer, fetched, data>>
    /\ UNCHANGED enginevars

\* else: st.error(...)
report_no_data ==
    /\ pc = "app_after_data"
    /\ IsEmpty(data)
    /\ outcome' = "no data"
    /\ pc' = "app_idle"
    /\ UNCHANGED <<ui, cache, now, answer, fetched, data, called,
                   strat_params, sharpe_in, metrics>>
    /\ UNCHANGED enginevars

NextApp == Tick \/ Click \/ get_data \/ run_backtest \/ report_no_data

SpecApp == InitApp /\ [][NextApp]_vars

----------------------------------------------------------------------------
(* The rule sets in isolation: each is applied once to a bar of any index. *)

InitRules ==
    /\ logic = "OR"
    /\ initial_cash = 100000
    /\ len \in RuleLens
    /\ bar \in RuleBarsAt(len)
    /\ order = None
    /\ orders = <<>>
    /\ notifs = <<>>
    /\ log_messages = <<>>
    /\ cash = initial_cash * 1000
    /\ position = 0
    /\ value = initial_cash * 1000
    /\ subs = 0
    /\ fills = <<>>
    /\ signal_s1 = "NotEvaluated"
    /\ signal_s2 = "NotEvaluated"
    /\ pc = "rules"
    /\ maxvalue = NegInf
    /\ maxdrawdown = 0
    /\ AppIdle

EvalS1 ==
    /\ UNCHANGED appvars
    /\ UNCHANGED analyzers
    /\ pc = "rules"
    /\ signal_s1 = "NotEvaluated"
    /\ signal_s1' = check_strategy_1(len, bar)
    /\ UNCHANGED <<logic, initial_cash, len, bar, order, orders, notifs,
                   log_messages, cash, position, value, subs, fills,
                   signal_s2, pc>>

EvalS2 ==
    /\ UNCHANGED appvars
    /\ UNCHANGED analyzers
    /\ pc = "rules"
    /\ signal_s2 = "NotEvaluated"
    /\ signal_s2' = check_strategy_2(len, bar)
    /\ UNCHANGED <<logic, initial_cash, len, bar, order, orders, notifs,
                   log_messages, cash, position, value, subs, fills,
                   signal_s1, pc>>

NextRules == EvalS1 \/ EvalS2

SpecRules == InitRules /\ [][NextRules]_vars

----------------------------------------------------------------------------
(* Vocabulary of the properties *)

Alive == {"Submitted", "Accepted"}

\* the orders that existed before the current bar's step submitted any
Earlier == 1 .. (Len(orders) - subs)

\* no order was pending when the current bar's step ran
NonePendingAtStep == \A i \in Earlier : orders[i].status \notin Alive

\* the per-bar step of the current bar has completed
StepDone == pc = "advance" /\ len >= 1

\* next() ran on the current bar and returned
NextDone == pc = "advance" /\ len >= MinPeriod

LastOrder == orders[Len(orders)]

SubmittedNow(isbuy) ==
    /\ subs = 1
    /\ LastOrder.isbuy = isbuy
    /\ LastOrder.status = "Submitted"

HasStatus(isbuy, st) ==
    \E i \in 1 .. Len(orders) : orders[i].isbuy = isbuy /\ orders[i].status = st

\* the combined entry signal of the current bar
CombinedSignal ==
    LET s1 == check_strategy_1(len, bar) = "True"
        s2 == check_strategy_2(len, bar) = "True"
    IN  IF logic = "AND" THEN s1 /\ s2 ELSE s1 \/ s2

----------------------------------------------------------------------------
(* C1: on every bar after a filled entry on which a position is open, no   *)
(* order is pending and close < MA20, the step submits a sell order for    *)
(* the full held size.                                                     *)
C1_ExitSubmitted ==
    ( /\ NextDone
      /\ HasStatus(TRUE, "Completed")
      /\ position > 0
      /\ NonePendingAtStep
      /\ Lt(bar.close, bar.ma20) )
    => ( SubmittedNow(FALSE) /\ LastOrder.size = position )

(* C2: after a failed (margin, canceled, rejected) order the failure is    *)
(* logged, the engine is back in its pre-order state, and on a later bar   *)
(* where it is flat and the entry signal is true it submits a new buy.     *)
C2_RecoversAfterFailure ==
    ( /\ NextDone
      /\ \E i \in Earlier : orders[i].status \in {"Margin", "Canceled", "Rejected"}
      /\ NonePendingAtStep
      /\ position = 0
      /\ CombinedSignal )
    => ( /\ \E k \in 1 .. Len(log_messages) :
                log_messages[k].txt = "order failed/canceled/rejected"
         /\ SubmittedNow(TRUE) )

(* C3: at most one order is outstanding at any time: the step of a bar     *)
(* submits at most one order, and none while an earlier order is pending.  *)
C3_AtMostOneOutstanding ==
    /\ subs <= 1
    /\ Cardinality({ i \in 1 .. Len(orders) : orders[i].status \in Alive }) <= 1
    /\ (subs > 0 => NonePendingAtStep)

C3_Witness ==
    /\ NextDone
    /\ subs = 1
    /\ Cardinality({ i \in 1 .. Len(orders) : orders[i].status \in Alive }) = 1

(* C4: the held size is 0 or position_size; a buy is never submitted while *)
(* a position is open, every buy requests position_size shares and every   *)
(* sell requests the held size.                                            *)
C4_PositionSize ==
    /\ position \in {0, position_size}
    /\ \A i \in 1 .. Len(orders) : orders[i].isbuy => orders[i].size = position_size
    /\ \A i \in 1 .. Len(orders) :
          (i \notin Earlier /\ pc = "advance") =>
              IF orders[i].isbuy THEN position = 0
              ELSE orders[i].size = position

C4_Witness == position = position_size /\ HasStatus(TRUE, "Completed")

(* C5: on every bar where the engine is flat with no pending order, a buy  *)
(* is submitted if and only if the combined signal (S1 AND S2 under AND,   *)
(* S1 OR S2 under OR) is true.                                             *)
C5_BuyIffCombined ==
    ( StepDone /\ position = 0 /\ NonePendingAtStep )
    => ( SubmittedNow(TRUE) <=> CombinedSignal )

----------------------------------------------------------------------------
(* The rule sets as the specification words them, on defined values.       *)

Larger(a, b) == IF a >= b THEN a ELSE b
Smaller(a, b) == IF a <= b THEN a ELSE b

\* max(MA5, MA20) / min(MA5, MA20) < 1 + 0.05  (a ratio needs min # 0)
RatioBelowTolerance(b) ==
    /\ Smaller(b.ma5, b.ma20) > 0
    /\ Larger(b.ma5, b.ma20) * 100 < 105 * Smaller(b.ma5, b.ma20)

RuleSet1(n, b) ==
    /\ n >= 60
    /\ b.ma60 < b.ma20 /\ b.ma20 < b.close
    /\ RatioBelowTolerance(b)
    /\ b.volume > 10000000

\* close > open and (close - open) / open > 0.035  (a ratio needs open # 0)
LongBullishCandle(b) ==
    /\ b.close > b.open
    /\ b.open > 0
    /\ (b.close - b.open) * 1000 > 35 * b.open

RuleSet2(n, b) ==
    /\ n >= 20
    /\ b.ma20 < b.ma10 /\ b.ma10 < b.close
    /\ b.volume > 1000000
    /\ LongBullishCandle(b)
    /\ b.cross # NaN /\ b.cross = 1

(* C6: Rule Set 1 fires on a bar iff at least 60 bars have been observed   *)
(* and MA60 < MA20 < close, max(MA5,MA20)/min(MA5,MA20) < 1.05 and volume  *)
(* > 10,000,000 (so it does not fire at volume = 10,000,000).              *)
C6_RuleSet1 ==
    signal_s1 # "NotEvaluated" =>
        /\ (signal_s1 = "True" <=> RuleSet1(len, bar))
        /\ (bar.volume = 10000000 => signal_s1 # "True")

C6_Witness == signal_s1 = "True" /\ bar.volume = 11000000

(* C7: Rule Set 2 fires on a bar iff at least 20 bars have been observed   *)
(* and MA20 < MA10 < close, volume > 1,000,000, close > open with a body   *)
(* above 3.5% of the open, and the MACD crossover detector is +1 on that   *)
(* bar.                                                                    *)
C7_RuleSet2 ==
    signal_s2 # "NotEvaluated" => (signal_s2 = "True" <=> RuleSet2(len, bar))

C7_Witness == signal_s2 = "True" /\ bar.cross = 1

(* C8: Rule Set 2 evaluates to false on every bar with fewer than 20 bars  *)
(* observed and Rule Set 1 on every bar with fewer than 60; an undefined   *)
(* moving average never makes a rule true and never raises.                *)
C8_FalseBeforeWindow ==
    /\ (signal_s2 # "NotEvaluated" /\ len < 20) => signal_s2 = "False"
    /\ (signal_s1 # "NotEvaluated" /\ len < 60) => signal_s1 = "False"
    /\ (signal_s1 # "NotEvaluated" /\ NaN \in {bar.ma60, bar.ma20, bar.ma5})
           => signal_s1 = "False"
    /\ (signal_s2 # "NotEvaluated" /\ NaN \in {bar.ma20, bar.ma10})
           => signal_s2 = "False"

C8_Witness ==
    /\ len = 19
    /\ bar.ma10 # NaN /\ bar.ma20 = NaN
    /\ bar.open = 0 /\ bar.close > 0
    /\ signal_s1 = "False"
    /\ signal_s2 = "False"

(* C9: no exception propagates out of the per-bar step: for every bar with *)
(* non-negative prices and volume, also with open = 0 < close or           *)
(* min(MA5, MA20) = 0, the step completes and the run goes on.             *)
C9_NoException == pc # "raised"

(* C10: at every bar boundary cash + position size * close equals the      *)
(* tracked equity; cash changes only on fills, by -(price * size +         *)
(* commission) on a buy and +(price * size - commission) on a sell, with   *)
(* commission = 0.1% of the fill's notional.                               *)
RECURSIVE FillsCash(_)
FillsCash(fs) ==
    IF fs = <<>> THEN 0
    ELSE LET f == Head(fs)
             notional == Abs(f.size) * f.price * 1000
         IN  (IF f.size > 0 THEN 0 - (notional + notional \div 1000)
                            ELSE notional - notional \div 1000)
             + FillsCash(Tail(fs))

C10_CashStep ==
    IF pc = "advance" /\ pc' = "strategy"
    THEN cash' = cash + FillsCash(fills')
    ELSE cash' = cash

C10_Accounting ==
    /\ [](len >= 1 => value = cash + position * bar.close * 1000)
    /\ [][C10_CashStep]_vars

C10_Witness ==
    /\ fills # <<>>
    /\ position = position_size
    /\ bar.close > 0
    /\ cash < initial_cash * 1000

----------------------------------------------------------------------------
(* C14 as stated: the reported max drawdown of every run is <= 0% and      *)
(* >= -100%, and equity never falls below zero.                            *)
C14_NonPositiveDrawdown ==
    /\ value >= 0
    /\ pc = "done" =>
          /\ ReportedMDD(maxdrawdown) <= 0
          /\ ReportedMDD(maxdrawdown) >= 0 - 10000

(* C14 amended: the reported max drawdown of every run with positive       *)
(* initial cash is >= 0% and <= 100% (the largest peak-to-trough decline   *)
(* as a non-negative percentage of the peak), and equity never falls       *)
(* below zero.                                                             *)
C14_DrawdownRange ==
    /\ value >= 0
    /\ maxvalue # NegInf => value <= maxvalue
    /\ pc = "done" =>
          /\ ReportedMDD(maxdrawdown) >= 0
          /\ ReportedMDD(maxdrawdown) <= 10000

C14_Witness ==
    /\ pc = "done"
    /\ ReportedMDD(maxdrawdown) > 0
    /\ position = position_size

(* C16: on a bar sequence whose open and close are one constant price, no  *)
(* entry signal ever fires whatever the volumes and the combinator: no     *)
(* order is submitted, the trade log stays empty and equity equals the     *)
(* initial cash at every bar.                                              *)
C16_FlatNoTrade ==
    /\ signal_s1 # "True"
    /\ signal_s2 # "True"
    /\ orders = <<>>
    /\ subs = 0
    /\ log_messages = <<>>
    /\ value = initial_cash * 1000

C16_Witness ==
    /\ pc = "done"
    /\ bar.close > 0
    /\ bar.volume = 11000000
    /\ signal_s1 = "False"

(* C17: no order is submitted on any of the first 59 bars under either     *)
(* combinator; next() first runs on bar 60, so under OR a bar 20..59 on    *)
(* which Rule Set 2's conditions all hold produces no buy.                 *)
C17_NoOrderBeforeMinPeriod ==
    len < 60 =>
        /\ orders = <<>>
        /\ subs = 0
        /\ signal_s1 = "NotEvaluated"
        /\ signal_s2 = "NotEvaluated"
        /\ pc \in {"advance", "strategy"}

C17_Witness ==
    /\ logic = "OR"
    /\ len >= 20 /\ len < 60
    /\ pc = "advance"
    /\ check_strategy_2(len, bar) = "True"
    /\ orders = <<>>

----------------------------------------------------------------------------
(* C11: invalid parameters (start date >= end date, initial cash <= 0,     *)
(* position size <= 0) are rejected before any fetch or run: an            *)
(* InvalidParameters error is surfaced and neither get_data nor            *)
(* run_backtest is called.                                                 *)
InvalidParameters(u) ==
    \/ u.start_date >= u.end_date
    \/ u.initial_cash <= 0
    \/ position_size <= 0

C11_RejectedBeforeFetch ==
    (ui # NoUI /\ InvalidParameters(ui)) =>
        /\ called = {}
        /\ (pc = "app_idle" => outcome = "InvalidParameters")

(* C12: get_data fails with a distinct DataUnavailable outcome, not an     *)
(* empty frame, when the download raises or is empty or a required column  *)
(* is missing after normalization.                                         *)
FetchFailed(ans) ==
    \/ ans.kind = "exception"
    \/ ans.kind = "frame" /\ IsEmpty(ans)
    \/ ans.kind = "frame" /\
          required_cols \ { Rename(Lower(c)) : c \in ans.cols } # {}

C12_DistinctFailure ==
    (pc = "app_after_data" /\ fetched /\ FetchFailed(answer)) =>
        /\ data.kind = "DataUnavailable"
        /\ data # EmptyFrame

(* C13: whenever the Sharpe ratio cannot be computed (no value, None or    *)
(* NaN from the analyzer) run_backtest reports one and the same sentinel,  *)
(* never None or NaN.                                                      *)
C13_OneSentinel ==
    (outcome = "results" /\ sharpe_in.kind \in {"absent", "None", "nan"}) =>
        metrics = "N/A"

(* C15: a run uses the strategy parameters its caller chose: Rule Set 1    *)
(* tests volume against the chosen volume_threshold_A and Rule Set 2 the   *)
(* candle against the chosen k_bar_threshold, so a bar whose volume lies   *)
(* between two thresholds fires under the lower one.                       *)
ProbeBar == [ open |-> 200, close |-> 208, volume |-> 7000000, ma5 |-> 200,
              ma10 |-> 205, ma20 |-> 200, ma60 |-> 100, cross |-> 0 ]

C15_ChosenParameters ==
    "run_backtest" \in called =>
        /\ strat_params.volume_limit_A = ui.volume_limit_A * 1000
        /\ strat_params.k_bar_pct = ui.k_bar_pct
        /\ (ui.volume_limit_A * 1000 * 1000 < ProbeBar.volume
               => check_strategy_1(S1MinLen, ProbeBar) = "True")

(* C18: the cache of get_data keeps failures too: after a call for a key   *)
(* ended in a failure, every call with that key within the 3600 s TTL      *)
(* returns that empty result without contacting the provider, and a call   *)
(* after the TTL has expired fetches anew.                                 *)
UIKey == <<ui.ticker, ui.start_date, ui.end_date>>

C18_GetDataStep ==
    (pc = "app_get_data" /\ pc' = "app_after_data") =>
        /\ (cache[UIKey].stored /\ now - cache[UIKey].at < 3600)
              => (~ fetched' /\ data' = cache[UIKey].result /\ cache' = cache)
        /\ (cache[UIKey].stored /\ now - cache[UIKey].at >= 3600) => fetched'
        /\ (fetched' /\ FetchFailed(answer'))
              => (cache'[UIKey].stored /\ cache'[UIKey].at = now
                  /\ IsEmpty(cache'[UIKey].result))

C18_FailuresCached == [][C18_GetDataStep]_vars

C18_Witness ==
    /\ pc = "app_after_data"
    /\ ~ fetched
    /\ IsEmpty(data)
    /\ cache[UIKey].stored
    /\ now > cache[UIKey].at

C18_WitnessExpired ==
    /\ pc = "app_after_data"
    /\ fetched
    /\ now >= 3600
    /\ cache[UIKey].at = now

====
